---- MODULE Spec2Model ----
(***************************************************************************)
(* release2chart: one run of the command line tool, from RootCmd.RunE      *)
(* through FindLatestReleaseVersion, ConvertReleaseVersion,                *)
(* helmReleaseFromReleaseData and saveReleaseToFiles.                      *)
(*                                                                         *)
(* Strings whose characters matter (labels, the revision flag, file        *)
(* contents) are sequences of byte values; opaque strings (release names,  *)
(* path components, error texts) are TLA+ strings.  "" is the empty Go     *)
(* string where a Go string is returned.                                   *)
(***************************************************************************)
EXTENDS Integers, Sequences, FiniteSets, TLC

\* Longest list of secrets the store holds.
MaxSecrets == 2

\* A Go pointer or slice that may be nil: <<>> is nil, <<v>> holds v.
Nil == <<>>

Some(v) == <<v>>

----------------------------------------------------------------------------
(* strconv *)

IsDigit(b) == b \in 48..57

RECURSIVE DigitsValue(_)
DigitsValue(s) ==
    IF s = <<>> THEN 0
    ELSE 10 * DigitsValue(SubSeq(s, 1, Len(s) - 1)) + (s[Len(s)] - 48)

\* strconv.Atoi: an optional sign, then one digit or more.  The strings of
\* the model are short, so the range error of Atoi cannot occur.
AtoiDigits(s) == IF s # <<>> /\ s[1] \in {43, 45} THEN Tail(s) ELSE s

AtoiOk(s) == AtoiDigits(s) # <<>> /\ \A i \in DOMAIN AtoiDigits(s) : IsDigit(AtoiDigits(s)[i])

Atoi(s) == IF s[1] = 45 THEN 0 - DigitsValue(AtoiDigits(s)) ELSE DigitsValue(AtoiDigits(s))

RECURSIVE NatDigits(_)
NatDigits(n) == IF n < 10 THEN <<48 + n>> ELSE NatDigits(n \div 10) \o <<48 + (n % 10)>>

\* strconv.Itoa
Itoa(n) == IF n < 0 THEN <<45>> \o NatDigits(0 - n) ELSE NatDigits(n)

----------------------------------------------------------------------------
(* encoding/base64, encoding/json, gopkg.in/yaml.v3 as the code calls them *)

\* The character of base64.StdEncoding for a 6 bit value.
B64Char(v) ==
    IF v < 26 THEN 65 + v
    ELSE IF v < 52 THEN 97 + (v - 26)
    ELSE IF v < 62 THEN 48 + (v - 52)
    ELSE IF v = 62 THEN 43 ELSE 47

RECURSIVE Base64Encode(_)
Base64Encode(b) ==
    IF b = <<>> THEN <<>>
    ELSE IF Len(b) = 1 THEN
        <<B64Char(b[1] \div 4), B64Char((b[1] % 4) * 16), 61, 61>>
    ELSE IF Len(b) = 2 THEN
        <<B64Char(b[1] \div 4), B64Char((b[1] % 4) * 16 + b[2] \div 16),
          B64Char((b[2] % 16) * 4), 61>>
    ELSE
        <<B64Char(b[1] \div 4), B64Char((b[1] % 4) * 16 + b[2] \div 16),
          B64Char((b[2] % 16) * 4 + b[3] \div 64), B64Char(b[3] % 64)>>
        \o Base64Encode(SubSeq(b, 4, Len(b)))

\* json.Marshal of a []byte: null for a nil slice, else the base64 text of
\* the bytes between double quotes.
JsonMarshalBytes(b) ==
    IF b = Nil THEN <<110, 117, 108, 108>>
    ELSE <<34>> \o Base64Encode(b[1]) \o <<34>>

\* Lexicographic order of byte strings, the order yaml.v3 writes map keys in
\* (the keys of the model are letters only).
RECURSIVE BytesLess(_, _)
BytesLess(a, b) ==
    IF b = <<>> THEN FALSE
    ELSE IF a = <<>> THEN TRUE
    ELSE IF a[1] # b[1] THEN a[1] < b[1]
    ELSE BytesLess(Tail(a), Tail(b))

YamlLine(k, v) == k \o <<58, 32>> \o v \o <<10>>

RECURSIVE YamlMapLines(_, _)
YamlMapLines(m, keys) ==
    IF keys = {} THEN <<>>
    ELSE LET k == CHOOSE x \in keys : \A y \in keys \ {x} : BytesLess(x, y)
         IN  YamlLine(k, m[k]) \o YamlMapLines(m, keys \ {k})

\* yaml.Marshal of a map[string]interface{} of scalars: "{}\n" for a nil or
\* empty map (both are the function of empty domain here), else one
\* "key: value\n" line per key, keys sorted.
YamlMarshalMap(m) ==
    IF DOMAIN m = {} THEN <<123, 125, 10>>
    ELSE YamlMapLines(m, DOMAIN m)

\* yaml.Marshal of a *chart.Metadata: "null\n" for a nil pointer, else the
\* fields in struct order under their lower-cased names.  The model keeps
\* the fields Name and Version.
YamlMarshalMetadata(md) ==
    IF md = Nil THEN <<110, 117, 108, 108, 10>>
    ELSE YamlLine(<<110, 97, 109, 101>>, md[1].Name)
         \o YamlLine(<<118, 101, 114, 115, 105, 111, 110>>, md[1].Version)

----------------------------------------------------------------------------
(* path/filepath *)

RECURSIVE CleanFrom(_, _)
CleanFrom(done, rest) ==
    IF rest = <<>> THEN done
    ELSE LET c == rest[1] IN
         IF c = "." THEN CleanFrom(done, Tail(rest))
         ELSE IF c = ".." THEN
             IF done = <<>> \/ done[Len(done)] = ".." THEN CleanFrom(done \o <<c>>, Tail(rest))
             ELSE IF done = <<"/">> THEN CleanFrom(done, Tail(rest))
             ELSE CleanFrom(SubSeq(done, 1, Len(done) - 1), Tail(rest))
         ELSE CleanFrom(done \o <<c>>, Tail(rest))

\* filepath.Clean on a path held as its components ("/" first when rooted;
\* <<>> is the empty string, which Clean turns into ".").
Clean(p) == IF CleanFrom(<<>>, p) = <<>> THEN <<".">> ELSE CleanFrom(<<>>, p)

\* filepath.Join: empty elements are ignored, the rest is joined and cleaned.
Join(a, b) == IF a \o b = <<>> THEN <<>> ELSE Clean(a \o b)

\* filepath.Dir
Dir(p) == IF Len(p) <= 1 THEN (IF p = <<"/">> THEN p ELSE <<".">>) ELSE SubSeq(p, 1, Len(p) - 1)

\* filepath.Base, as a string: "." for the empty path.
Base(p) == IF p = <<>> THEN "." ELSE p[Len(p)]

\* strings.Join
RECURSIVE StringsJoin(_, _)
StringsJoin(elems, sep) ==
    IF elems = <<>> THEN ""
    ELSE IF Len(elems) = 1 THEN elems[1]
    ELSE elems[1] \o sep \o StringsJoin(Tail(elems), sep)

----------------------------------------------------------------------------
(* The release records a store can hold.  A release is what                *)
(* helmrelease.Release gives the code: Name, Chart (nil or a chart with    *)
(* Metadata, Values, Schema, Files, Templates) and Config.  File names are *)
(* slash separated in Go and held here as their components.                *)

File(name, data) == [Name |-> name, Data |-> data]

Chart(md, values, schema, files, templates) ==
    Some([Metadata |-> md, Values |-> values, Schema |-> schema,
          Files |-> files, Templates |-> templates])

Metadata(name, version) == Some([Name |-> name, Version |-> version])

Release(name, chart, config) == [Name |-> name, Chart |-> chart, Config |-> config]

\* Chart "p-1" as its author wrote it, and the release helm stored for it.
OrigA ==
    (<<"Chart.yaml">> :> <<110, 97, 109, 101, 58, 32, 112, 10,
                           118, 101, 114, 115, 105, 111, 110, 58, 32, 49, 10>>)
    @@ (<<"values.yaml">> :> <<97, 58, 32, 49, 10>>)
    @@ (<<"values.schema.json">> :> <<123, 125>>)
    @@ (<<"README.md">> :> <<104, 105>>)
    @@ (<<"templates", "svc.yaml">> :> <<120, 10>>)

ReleaseA ==
    Release("pg",
            Chart(Metadata(<<112>>, <<49>>), (<<97>> :> <<49>>), Some(<<123, 125>>),
                  <<File(<<"README.md">>, <<104, 105>>)>>,
                  <<File(<<"templates", "svc.yaml">>, <<120, 10>>)>>),
            (<<97>> :> <<50>>))

\* Chart "q-2": no schema, values.yaml written with its keys out of order,
\* installed without override values.
OrigB ==
    (<<"Chart.yaml">> :> <<110, 97, 109, 101, 58, 32, 113, 10,
                           118, 101, 114, 115, 105, 111, 110, 58, 32, 50, 10>>)
    @@ (<<"values.yaml">> :> <<98, 58, 32, 50, 10, 97, 58, 32, 49, 10>>)
    @@ (<<"templates", "cm.yaml">> :> <<121, 10>>)

ReleaseB ==
    Release("pg",
            Chart(Metadata(<<113>>, <<50>>), (<<97>> :> <<49>>) @@ (<<98>> :> <<50>>), Nil,
                  <<>>,
                  <<File(<<"templates", "cm.yaml">>, <<121, 10>>)>>),
            <<>>)

\* A record whose file names collide with each other and with the generated
\* files once joined to the destination, and one that leaves the destination.
ReleaseC ==
    Release("pg",
            Chart(Metadata(<<114>>, <<51>>), <<>>, Some(<<>>),
                  <<File(<<"Chart.yaml">>, <<99>>),
                    File(<<"a", "..", "values.yaml">>, <<100>>),
                    File(<<"dup">>, <<101>>),
                    File(<<"..", "out">>, <<102>>)>>,
                  <<File(<<".", "dup">>, <<103>>),
                    File(<<"values.schema.json">>, <<104>>)>>),
            <<>>)

\* A record whose file names make a directory of a path that is then
\* written as a file.
ReleaseD ==
    Release("pg",
            Chart(Metadata(<<115>>, <<52>>), <<>>, Nil,
                  <<File(<<"ok">>, <<105>>), File(<<"Chart.yaml", "x">>, <<106>>)>>,
                  <<>>),
            (<<97>> :> <<49>>))

\* A record whose first file is then used as a directory.
ReleaseE ==
    Release("pg",
            Chart(Metadata(<<116>>, <<53>>), <<>>, Nil,
                  <<File(<<"f">>, <<107>>), File(<<"f", "g">>, <<108>>)>>,
                  <<>>),
            <<>>)

\* A record with no chart ("chart": null).
ReleaseNoChart == Release("pg", Nil, <<>>)

\* The value of a secret's "release" key: the release (nil for the JSON text
\* null) under JSON, gzip and base64, sound or damaged in one of the three
\* layers.  orig is the chart the release was installed from, when it was
\* installed from one; the code never reads it.
Payload(damage, value, orig) == [damage |-> damage, value |-> value, orig |-> orig]

Secret(ns, owner, name, version, data) ==
    [Namespace |-> ns, Labels |-> [owner |-> owner, name |-> name, version |-> version],
     Data |-> data]

Sound(release) == Payload("none", Some(release), Nil)

Secrets ==
    { Secret("ns", "helm", "pg", <<49>>, Payload("none", Some(ReleaseA), Some(OrigA))),
      Secret("ns", "helm", "pg", <<50>>, Payload("none", Some(ReleaseB), Some(OrigB))),
      Secret("ns", "helm", "pg", <<50>>, Sound(ReleaseC)),
      Secret("ns", "helm", "pg", <<51>>, Sound(ReleaseD)),
      Secret("ns", "helm", "pg", <<51>>, Sound(ReleaseE)),
      Secret("ns", "helm", "pg", <<49>>, Sound(ReleaseNoChart)),
      Secret("ns", "helm", "pg", <<49>>, Payload("none", Nil, Nil)),
      Secret("ns", "helm", "pg", <<49>>, Payload("base64", Some(ReleaseA), Nil)),
      Secret("ns", "helm", "pg", <<50>>, Payload("gzip", Some(ReleaseA), Nil)),
      Secret("ns", "helm", "pg", <<51>>, Payload("json", Some(ReleaseA), Nil)),
      Secret("ns", "helm", "pg", <<48, 50>>, Sound(ReleaseA)),
      Secret("ns", "helm", "pg", <<120>>, Sound(ReleaseA)),
      Secret("ns", "helm", "pg", <<>>, Sound(ReleaseA)),
      Secret("ns", "helm", "web", <<57>>, Sound(ReleaseA)),
      Secret("ns", "other", "pg", <<57>>, Sound(ReleaseA)),
      Secret("elsewhere", "helm", "pg", <<57>>, Sound(ReleaseA)) }

RECURSIVE SeqsUpTo(_, _)
SeqsUpTo(S, n) ==
    IF n = 0 THEN {<<>>}
    ELSE SeqsUpTo(S, n - 1) \cup {Append(q, x) : q \in {r \in SeqsUpTo(S, n - 1) : Len(r) = n - 1}, x \in S}

\* The command lines: no argument or the release name; --revision unset
\* (""), "1", "2", "+2" and one that is no number.
ArgLists == {<<>>, <<"pg">>}

RevisionFlags == {<<>>, <<49>>, <<50>>, <<43, 50>>, <<50, 120>>}

----------------------------------------------------------------------------
VARIABLES
    store,        \* the secrets of the cluster, in the order List returns them
    args,         \* the positional arguments
    revisionFlag, \* the value of --revision
    pc,           \* where the run is
    revision,     \* RunE's revision
    items,        \* ConvertReleaseVersion's secrets.Items
    helmRelease,  \* ConvertReleaseVersion's helmRelease (nil or a release)
    origChart,    \* the chart helmRelease was installed from, if any
    releaseDir,   \* the temporary directory's path, <<>> before it is made
    fs,           \* the file system outside the working directory
    files,        \* saveReleaseToFiles's files
    idx,          \* the entry of files the write loop is at
    cwd,          \* the files of the working directory
    chartFile,    \* ConvertReleaseVersion's chartFile
    ret,          \* what ConvertReleaseVersion returned
    stdout,       \* the lines printed
    exitStatus,   \* the process's exit status, -1 while it runs
    runErr,       \* the error RunE returned, "" for none
    log           \* the calls made so far, in order

vars == <<store, args, revisionFlag, pc, revision, items, helmRelease, origChart,
          releaseDir, fs, files, idx, cwd, chartFile, ret, stdout, exitStatus, runErr, log>>

Namespace == "ns"

dstDir == <<".">>

Call(step, ok, arg) == [step |-> step, ok |-> ok, arg |-> arg]

NoRet == [chartFile |-> "", valuesFile |-> "", err |-> ""]

Dirs(paths) == [p \in paths |-> [kind |-> "dir", data |-> <<>>]]

Init ==
    /\ store \in SeqsUpTo(Secrets, MaxSecrets)
    /\ args \in ArgLists
    /\ revisionFlag \in RevisionFlags
    /\ pc = "RunE"
    /\ revision = 0
    /\ items = <<>>
    /\ helmRelease = Nil
    /\ origChart = Nil
    /\ releaseDir = <<>>
    /\ fs = Dirs({<<"/">>, <<"/", "tmp">>})
    /\ files = <<>>
    /\ idx = 0
    /\ cwd = <<>>
    /\ chartFile = <<>>
    /\ ret = NoRet
    /\ stdout = <<>>
    /\ exitStatus = -1
    /\ runErr = ""
    /\ log = <<>>

----------------------------------------------------------------------------
(* The outside world: the cluster's List, the file system, helm's package   *)

\* Secrets(namespace).List with a label selector: the secrets of the
\* namespace that carry every label of the selector.
ListSecrets(namespace, selector) ==
    SelectSeq(store, LAMBDA sec :
        /\ sec.Namespace = namespace
        /\ \A l \in DOMAIN selector : sec.Labels[l] = selector[l])

IsPrefix(d, p) == Len(d) <= Len(p) /\ SubSeq(p, 1, Len(d)) = d

Prefixes(p) == {SubSeq(p, 1, k) : k \in 1..Len(p)}

IsDir(f, p) == p \in DOMAIN f /\ f[p].kind = "dir"

\* os.MkdirAll succeeds unless a part of the path is a file.
MkdirAllOk(f, dir) == \A q \in Prefixes(dir) : q \in DOMAIN f => f[q].kind = "dir"

MkdirAll(f, dir) == f @@ Dirs(Prefixes(dir))

\* ioutil.WriteFile creates or truncates; it cannot open a directory.
WriteFileOk(f, path) == ~IsDir(f, path)

WriteFile(f, path, data) == (path :> [kind |-> "file", data |-> data]) @@ f

\* Mutant of RemoveAll: os.Remove, which takes the directory entry alone.
RemoveOnly(f, dir) == [p \in DOMAIN f \ {dir} |-> f[p]]

\* os.RemoveAll
RemoveAll(f, dir) == [p \in {q \in DOMAIN f : ~IsPrefix(dir, q)} |-> f[p]]

\* The files below dir, by their path relative to it.
TreeUnder(f, dir) ==
    [r \in {SubSeq(q, Len(dir) + 1, Len(q)) :
              q \in {x \in DOMAIN f : IsPrefix(dir, x) /\ f[x].kind = "file"}}
       |-> f[dir \o r].data]

Letters ==
    <<"a", "b", "c", "d", "e", "f", "g", "h", "i", "j", "k", "l", "m",
      "n", "o", "p", "q", "r", "s", "t", "u", "v", "w", "x", "y", "z">>

RECURSIVE StrOf(_)
StrOf(b) ==
    IF b = <<>> THEN ""
    ELSE (IF IsDigit(b[1]) THEN ToString(b[1] - 48) ELSE Letters[b[1] - 96]) \o StrOf(Tail(b))

\* The archive helm's package action writes: <name>-<version>.tgz.
ArchiveName(md) == StrOf(md.Name) \o "-" \o StrOf(md.Version) \o ".tgz"

----------------------------------------------------------------------------
(* RootCmd.RunE, up to the call of ConvertReleaseVersion *)

Exit(status, err) ==
    /\ pc' = "exit"
    /\ exitStatus' = status
    /\ runErr' = err

\* Mutant of RunEError: the error of Execute is dropped.
RunEErrorExitsZero(err) == Exit(0, err)

\* RunE returned an error: cobra prints it and InitAndExecute exits with 1.
RunEError(err) == Exit(1, err)

RequireReleaseName ==
    /\ pc = "RunE"
    /\ Len(args) = 0
    /\ RunEError("release name is required")
    /\ UNCHANGED <<store, args, revisionFlag, revision, items, helmRelease, origChart,
                   releaseDir, fs, files, idx, cwd, chartFile, ret, stdout, log>>

\* Mutant of CallConvert: r shadows revision, which stays 0.
CallConvertShadowed(r, sofar) ==
    /\ revision' = 0
    /\ pc' = "Convert.GetClientset"
    /\ log' = Append(sofar, Call("ConvertReleaseVersion", TRUE, 0))
    /\ UNCHANGED <<exitStatus, runErr>>

\* Line 261: ConvertReleaseVersion is entered with revision r; sofar is the
\* log up to the call.
CallConvert(r, sofar) ==
    /\ revision' = r
    /\ pc' = "Convert.GetClientset"
    /\ log' = Append(sofar, Call("ConvertReleaseVersion", TRUE, r))
    /\ UNCHANGED <<exitStatus, runErr>>

ParseRevision ==
    /\ pc = "RunE"
    /\ Len(args) # 0
    /\ revisionFlag # <<>>
    /\ IF AtoiOk(revisionFlag)
       THEN CallConvert(Atoi(revisionFlag), log)
       ELSE /\ RunEError("parse revision")
            /\ UNCHANGED <<revision, log>>
    /\ UNCHANGED <<store, args, revisionFlag, items, helmRelease, origChart,
                   releaseDir, fs, files, idx, cwd, chartFile, ret, stdout>>

CallFindLatest ==
    /\ pc = "RunE"
    /\ Len(args) # 0
    /\ revisionFlag = <<>>
    /\ pc' = "Find.GetClientset"
    /\ log' = Append(log, Call("FindLatestReleaseVersion", TRUE, 0))
    /\ UNCHANGED <<store, args, revisionFlag, revision, items, helmRelease, origChart,
                   releaseDir, fs, files, idx, cwd, chartFile, ret, stdout, exitStatus, runErr>>

----------------------------------------------------------------------------
(* FindLatestReleaseVersion *)

FindGetClientset ==
    /\ pc = "Find.GetClientset"
    /\ \E ok \in BOOLEAN :
        /\ log' = Append(log, Call("Find.GetClientset", ok, 0))
        /\ IF ok THEN pc' = "Find.List" /\ UNCHANGED <<exitStatus, runErr>>
                 ELSE RunEError("find latest revision: get clientset")
    /\ UNCHANGED <<store, args, revisionFlag, revision, items, helmRelease, origChart,
                   releaseDir, fs, files, idx, cwd, chartFile, ret, stdout>>

\* Mutant of LatestRevision: the comparison of line 48 is missing.
RECURSIVE LatestRevisionLast(_, _)
LatestRevisionLast(secrets, n) ==
    IF n = 0 THEN 0
    ELSE IF ~AtoiOk(secrets[n].Labels.version) THEN LatestRevisionLast(secrets, n - 1)
    ELSE Atoi(secrets[n].Labels.version)

\* The scan of lines 41-51 over the first n items.
RECURSIVE LatestRevision(_, _)
LatestRevision(secrets, n) ==
    IF n = 0 THEN 0
    ELSE LET latest == LatestRevision(secrets, n - 1)
             label  == secrets[n].Labels.version
         IN  IF ~AtoiOk(label) THEN latest
             ELSE IF Atoi(label) > latest THEN Atoi(label) ELSE latest

FindSelector(releaseName) == [owner |-> "helm", name |-> releaseName]

FindListSecrets ==
    /\ pc = "Find.List"
    /\ \E ok \in BOOLEAN :
        IF ok
        THEN LET secrets == ListSecrets(Namespace, FindSelector(args[1]))
             IN  CallConvert(LatestRevision(secrets, Len(secrets)),
                             Append(log, Call("Find.List", TRUE, 0)))
        ELSE /\ RunEError("find latest revision: list secrets")
             /\ log' = Append(log, Call("Find.List", FALSE, 0))
             /\ UNCHANGED revision
    /\ UNCHANGED <<store, args, revisionFlag, items, helmRelease, origChart,
                   releaseDir, fs, files, idx, cwd, chartFile, ret, stdout>>

----------------------------------------------------------------------------
(* ConvertReleaseVersion *)

\* A return of ConvertReleaseVersion: the deferred os.RemoveAll(releaseDir)
\* runs when the directory has been made, then RunE has the three results.
Return(chart, values, err, f) ==
    /\ ret' = [chartFile |-> chart, valuesFile |-> values, err |-> err]
    /\ fs' = IF releaseDir = <<>> THEN f ELSE RemoveAll(f, releaseDir)
    /\ pc' = "returned"

\* A nil pointer dereference: the deferred RemoveAll runs and the Go runtime
\* ends the process with status 2.
Panic(f) ==
    /\ fs' = IF releaseDir = <<>> THEN f ELSE RemoveAll(f, releaseDir)
    /\ Exit(2, "panic")

ConvertGetClientset ==
    /\ pc = "Convert.GetClientset"
    /\ \E ok \in BOOLEAN :
        /\ log' = Append(log, Call("Convert.GetClientset", ok, 0))
        /\ IF ok THEN pc' = "Convert.List" /\ UNCHANGED <<ret, fs>>
                 ELSE Return("", "", "get clientset", fs)
    /\ UNCHANGED <<store, args, revisionFlag, revision, items, helmRelease, origChart,
                   releaseDir, files, idx, cwd, chartFile, stdout, exitStatus, runErr>>

ConvertSelector(releaseName, rev) ==
    [owner |-> "helm", name |-> releaseName, version |-> Itoa(rev)]

\* Mutant of MatchCountOk: only an empty list is refused.
MatchCountOkAtLeastOne(secrets) == Len(secrets) >= 1

\* Line 78
MatchCountOk(secrets) == Len(secrets) = 1

ConvertListSecrets ==
    /\ pc = "Convert.List"
    /\ \E ok \in BOOLEAN :
        /\ log' = Append(log, Call("Convert.List", ok, 0))
        /\ IF ok
           THEN LET secrets == ListSecrets(Namespace, ConvertSelector(args[1], revision))
                IN  /\ items' = secrets
                    /\ IF ~MatchCountOk(secrets)
                       THEN Return("", "", "found " \o ToString(Len(secrets)) \o " matching releases", fs)
                       ELSE pc' = "helmReleaseFromReleaseData" /\ UNCHANGED <<ret, fs>>
           ELSE /\ Return("", "", "list secrets", fs)
                /\ UNCHANGED items
    /\ UNCHANGED <<store, args, revisionFlag, revision, helmRelease, origChart,
                   releaseDir, files, idx, cwd, chartFile, stdout, exitStatus, runErr>>

\* helmReleaseFromReleaseData: base64, gzip, JSON.  Damaged base64 text and
\* a damaged gzip header stop gzip.NewReader, a damaged gzip body stops
\* ReadAll, damaged JSON stops Unmarshal; the JSON text null leaves release nil.
DecodeError(data) ==
    CASE data.damage = "base64" -> "create gzip reader"
      [] data.damage = "gzip"   -> "read from gzip reader"
      [] data.damage = "json"   -> "unmarshal release data"
      [] OTHER                  -> ""

helmReleaseFromReleaseData ==
    /\ pc = "helmReleaseFromReleaseData"
    /\ LET data == items[1].Data
           err  == DecodeError(data)
       IN  /\ log' = Append(log, Call("helmReleaseFromReleaseData", err = "", 0))
           /\ IF err # ""
              THEN /\ Return("", "", "parse release info from secret", fs)
                   /\ UNCHANGED <<helmRelease, origChart>>
              ELSE /\ helmRelease' = data.value
                   /\ origChart' = data.orig
                   /\ pc' = "TempDir"
                   /\ UNCHANGED <<ret, fs>>
    /\ UNCHANGED <<store, args, revisionFlag, revision, items,
                   releaseDir, files, idx, cwd, chartFile, stdout, exitStatus, runErr>>

TempDirPath == <<"/", "tmp", "helm-release-1">>

TempDir ==
    /\ pc = "TempDir"
    /\ \E ok \in BOOLEAN :
        /\ log' = Append(log, Call("TempDir", ok, 0))
        /\ IF ok
           THEN /\ releaseDir' = TempDirPath
                /\ fs' = fs @@ Dirs({TempDirPath})
                /\ pc' = "saveReleaseToFiles"
                /\ UNCHANGED ret
           ELSE /\ Return("", "", "create temp dir", fs)
                /\ UNCHANGED releaseDir
    /\ UNCHANGED <<store, args, revisionFlag, revision, items, helmRelease, origChart,
                   files, idx, cwd, chartFile, stdout, exitStatus, runErr>>

----------------------------------------------------------------------------
(* saveReleaseToFiles *)

\* Mutant of BuildFiles: the generated files are listed first.
BuildFilesGeneratedFirst(chart) ==
    <<File(<<"Chart.yaml">>, YamlMarshalMetadata(chart.Metadata)),
      File(<<"values.yaml">>, YamlMarshalMap(chart.Values)),
      File(<<"values.schema.json">>, JsonMarshalBytes(chart.Schema))>>
    \o chart.Files \o chart.Templates

\* Lines 150-190: the static files, the templates, then the three files
\* generated from the chart's metadata, default values and schema.
BuildFiles(chart) ==
    chart.Files \o chart.Templates
    \o <<File(<<"Chart.yaml">>, YamlMarshalMetadata(chart.Metadata)),
         File(<<"values.yaml">>, YamlMarshalMap(chart.Values)),
         File(<<"values.schema.json">>, JsonMarshalBytes(chart.Schema))>>

\* The call of line 93 up to the write loop.  release.Chart.Files panics when
\* release or release.Chart is nil.
saveReleaseToFiles ==
    /\ pc = "saveReleaseToFiles"
    /\ IF helmRelease = Nil \/ helmRelease[1].Chart = Nil
       THEN /\ Panic(fs)
            /\ UNCHANGED <<files, idx>>
       ELSE /\ files' = BuildFiles(helmRelease[1].Chart[1])
            /\ idx' = 1
            /\ pc' = "WriteFile"
            /\ UNCHANGED <<fs, exitStatus, runErr>>
    /\ UNCHANGED <<store, args, revisionFlag, revision, items, helmRelease, origChart,
                   releaseDir, cwd, chartFile, ret, stdout, log>>

\* What one round of the loop of lines 192-202 does to the file system, and
\* whether it ends in an error.  outcome is what the disk does: "ok", or it
\* fails MkdirAll ("mkdir"), the open of WriteFile ("open") or its write
\* ("write", which leaves the file truncated).
WriteEntry(f, destDir, entry, outcome) ==
    LET fileName == Join(destDir, entry.Name)
        dir      == Dir(fileName)
    IN  IF outcome = "mkdir" \/ ~MkdirAllOk(f, dir) THEN [fs |-> f, ok |-> FALSE]
        ELSE IF outcome = "open" \/ ~WriteFileOk(MkdirAll(f, dir), fileName)
             THEN [fs |-> MkdirAll(f, dir), ok |-> FALSE]
        ELSE IF outcome = "write"
             THEN [fs |-> WriteFile(MkdirAll(f, dir), fileName, <<>>), ok |-> FALSE]
        ELSE [fs |-> WriteFile(MkdirAll(f, dir), fileName, entry.Data), ok |-> TRUE]

\* Mutant of AfterWrite: the loop is left after its first round.
AfterWriteFirst(i, n) == "PackageRun"

\* Where the run goes after entry i of n has been written.
AfterWrite(i, n) == IF i = n THEN "PackageRun" ELSE "WriteFile"

WriteChartFile ==
    /\ pc = "WriteFile"
    /\ \E outcome \in {"ok", "mkdir", "open", "write"} :
        LET w == WriteEntry(fs, releaseDir, files[idx], outcome)
        IN  /\ log' = Append(log, Call("WriteFile", w.ok, idx))
            /\ IF w.ok
               THEN /\ fs' = w.fs
                    /\ idx' = idx + 1
                    /\ pc' = AfterWrite(idx, Len(files))
                    /\ UNCHANGED ret
               ELSE /\ Return("", "", "save release to files", w.fs)
                    /\ UNCHANGED idx
    /\ UNCHANGED <<store, args, revisionFlag, revision, items, helmRelease, origChart,
                   releaseDir, files, cwd, chartFile, stdout, exitStatus, runErr>>

----------------------------------------------------------------------------
(* ConvertReleaseVersion, from the package action on *)

\* Lines 97-103: helm's package action reads the chart below releaseDir and
\* writes its archive into Destination.
PackageRun ==
    /\ pc = "PackageRun"
    /\ \E ok \in BOOLEAN :
        /\ log' = Append(log, Call("PackageRun", ok, 0))
        /\ IF ok
           THEN LET name == Join(dstDir, <<ArchiveName(helmRelease[1].Chart[1].Metadata[1])>>)
                IN  /\ chartFile' = name
                    /\ cwd' = (name :> [kind |-> "archive", data |-> TreeUnder(fs, releaseDir)]) @@ cwd
                    /\ pc' = "values"
                    /\ UNCHANGED <<ret, fs>>
           ELSE /\ Return("", "", "package client run", fs)
                /\ UNCHANGED <<chartFile, cwd>>
    /\ UNCHANGED <<store, args, revisionFlag, revision, items, helmRelease, origChart,
                   releaseDir, files, idx, stdout, exitStatus, runErr>>

\* Lines 105 and 119 when the release has no override values.
NoValuesFile ==
    /\ pc = "values"
    /\ DOMAIN helmRelease[1].Config = {}
    /\ Return(Base(chartFile), Base(<<>>), "", fs)
    /\ UNCHANGED <<store, args, revisionFlag, revision, items, helmRelease, origChart,
                   releaseDir, files, idx, cwd, chartFile, stdout, exitStatus, runErr, log>>

\* Lines 105-119 when it has some.
WriteValuesFile ==
    /\ pc = "values"
    /\ DOMAIN helmRelease[1].Config # {}
    /\ \E outcome \in {"ok", "open", "write"} :
        LET valuesFile == Join(dstDir, <<"values.yaml">>)
            configData == YamlMarshalMap(helmRelease[1].Config)
        IN  /\ log' = Append(log, Call("WriteValuesFile", outcome = "ok", 0))
            /\ cwd' = CASE outcome = "ok"    -> (valuesFile :> [kind |-> "file", data |-> configData]) @@ cwd
                        [] outcome = "write" -> (valuesFile :> [kind |-> "file", data |-> <<>>]) @@ cwd
                        [] OTHER             -> cwd
            /\ IF outcome = "ok"
               THEN Return(Base(chartFile), Base(valuesFile), "", fs)
               ELSE Return("", "", "write values file", fs)
    /\ UNCHANGED <<store, args, revisionFlag, revision, items, helmRelease, origChart,
                   releaseDir, files, idx, chartFile, stdout, exitStatus, runErr>>

----------------------------------------------------------------------------
(* RootCmd.RunE, after ConvertReleaseVersion *)

ConvertFailed ==
    /\ pc = "returned"
    /\ ret.err # ""
    /\ RunEError("convert release: " \o ret.err)
    /\ UNCHANGED <<store, args, revisionFlag, revision, items, helmRelease, origChart,
                   releaseDir, fs, files, idx, cwd, chartFile, ret, stdout, log>>

\* Lines 266-270
InstallCommand(releaseName, chart, valuesFile, namespace) ==
    <<"helm", "install", releaseName, chart>>
    \o (IF valuesFile # "" THEN <<"--values", valuesFile>> ELSE <<>>)
    \o <<"--namespace", namespace>>

PrintInstallCommand ==
    /\ pc = "returned"
    /\ ret.err = ""
    /\ stdout' = stdout \o
          << "Chart has been saved to " \o ret.chartFile,
             "To install the chart, run the following command:",
             "",
             StringsJoin(InstallCommand(args[1], ret.chartFile, ret.valuesFile, Namespace), " "),
             "" >>
    /\ log' = Append(log, Call("Println", TRUE, 0))
    /\ Exit(0, "")
    /\ UNCHANGED <<store, args, revisionFlag, revision, items, helmRelease, origChart,
                   releaseDir, fs, files, idx, cwd, chartFile, ret>>

----------------------------------------------------------------------------
Next ==
    \/ RequireReleaseName
    \/ ParseRevision
    \/ CallFindLatest
    \/ FindGetClientset
    \/ FindListSecrets
    \/ ConvertGetClientset
    \/ ConvertListSecrets
    \/ helmReleaseFromReleaseData
    \/ TempDir
    \/ saveReleaseToFiles
    \/ WriteChartFile
    \/ PackageRun
    \/ NoValuesFile
    \/ WriteValuesFile
    \/ ConvertFailed
    \/ PrintInstallCommand

Spec == Init /\ [][Next]_vars

----------------------------------------------------------------------------
(* What the log and the stores say, for the properties below *)

Steps(step) == {i \in DOMAIN log : log[i].step = step}

Called(step) == Steps(step) # {}

Succeeded(step) == \E i \in Steps(step) : log[i].ok

AnyFailed == \E i \in DOMAIN log : ~log[i].ok

InTempDir(f) == {p \in DOMAIN f : IsPrefix(TempDirPath, p)}

\* The records ConvertReleaseVersion's selector matches.
Matching == ListSecrets(Namespace, ConvertSelector(args[1], revision))

\* The records FindLatestReleaseVersion's selector matches, and the integers
\* their version labels parse to.
FindItems == ListSecrets(Namespace, FindSelector(args[1]))

VersionValues ==
    {Atoi(FindItems[i].Labels.version) :
        i \in {j \in DOMAIN FindItems : AtoiOk(FindItems[j].Labels.version)}}

HasOverrides == DOMAIN helmRelease[1].Config # {}

----------------------------------------------------------------------------
\* C1: when the records matching (owner=helm, name, version=revision) in the
\* namespace are none or more than one, ConvertReleaseVersion returns the
\* error "found <n> matching releases", decodes none of the records, and
\* makes no temporary directory, no archive and no values file; the run
\* ends with status 1 and prints nothing.
C1_FailsRatherThanGuesses ==
    (Succeeded("Convert.List") /\ Len(Matching) # 1) =>
        /\ pc \in {"returned", "exit"}
        /\ ret = [chartFile |-> "", valuesFile |-> "",
                  err |-> "found " \o ToString(Len(Matching)) \o " matching releases"]
        /\ pc = "exit" => exitStatus = 1
        /\ helmRelease = Nil
        /\ ~Called("helmReleaseFromReleaseData")
        /\ releaseDir = <<>>
        /\ ~Called("TempDir")
        /\ InTempDir(fs) = {}
        /\ DOMAIN cwd = {}
        /\ ~Called("PackageRun")
        /\ ~Called("WriteValuesFile")
        /\ stdout = <<>>

C1_Witness ==
    /\ Succeeded("Convert.List")
    /\ Len(Matching) > 1
    /\ pc = "exit"

\* C2: with exactly one matching record, the files saveReleaseToFiles has
\* written below the temporary directory are the files of the chart the
\* release was installed from: the same paths, the same bytes, nothing more.
C2_TreeMatchesOriginal ==
    (pc = "PackageRun" /\ origChart # Nil) => TreeUnder(fs, releaseDir) = origChart[1]

\* C3: once a call has failed (get clientset, list secrets, decoding, temp
\* dir, a file write, the package run, the values file write) nothing more
\* is attempted, ConvertReleaseVersion and RunE return an error, the exit
\* status is 1 and the install command is not printed; status 0 is reached
\* only when no call failed.
C3_FailuresSurface ==
    /\ AnyFailed =>
        /\ ~log[Len(log)].ok
        /\ \A i \in 1..(Len(log) - 1) : log[i].ok
        /\ stdout = <<>>
        /\ ~Called("Println")
        /\ \/ pc = "returned" /\ ret.err # "" /\ exitStatus = -1
           \/ pc = "exit" /\ exitStatus = 1 /\ runErr # ""
    /\ exitStatus = 0 => ~AnyFailed

C3_Witness ==
    /\ pc = "exit"
    /\ Called("WriteValuesFile")
    /\ ~Succeeded("WriteValuesFile")

\* C4: a run that ends with a nonzero exit status has left neither the
\* archive nor the values file in the working directory.
C4_NoPartialSuccess ==
    (pc = "exit" /\ exitStatus # 0) => DOMAIN cwd = {}

\* C5: when ConvertReleaseVersion has returned (or the process has ended),
\* the temporary directory and everything below it are gone; as long as the
\* directory has not been made, nothing exists at its path.
C5_TempDirCleaned ==
    /\ pc \in {"returned", "exit"} => InTempDir(fs) = {}
    /\ ~Succeeded("TempDir") => (releaseDir = <<>> /\ InTempDir(fs) = {})

C5_Witness ==
    /\ pc = "returned"
    /\ Succeeded("TempDir")
    /\ Succeeded("WriteFile")

\* C6: on a successful run, values.yaml is in the working directory, the
\* returned values file name is non-empty and the printed command holds
\* "--values <file>" exactly when the release has override values; without
\* them the command is "helm install <release> <archive> --namespace <ns>".
C6_ValuesFileIffOverrides ==
    exitStatus = 0 =>
        /\ (<<"values.yaml">> \in DOMAIN cwd) <=> HasOverrides
        /\ (ret.valuesFile # "") <=> HasOverrides
        /\ HasOverrides =>
             stdout[4] = "helm install " \o args[1] \o " " \o ret.chartFile
                         \o " --values values.yaml --namespace " \o Namespace
        /\ ~HasOverrides =>
             stdout[4] = "helm install " \o args[1] \o " " \o ret.chartFile
                         \o " --namespace " \o Namespace

\* C7, as claimed: when the listing succeeds, FindLatestReleaseVersion
\* returns the largest integer among the records' version labels, and that
\* integer is the version label of one of the records.
C7_LatestIsALabel ==
    Succeeded("Find.List") =>
        /\ revision \in VersionValues
        /\ \A v \in VersionValues : v <= revision

\* C7, amended: when the listing succeeds, FindLatestReleaseVersion returns
\* the largest of 0 and the integers the records' version labels parse to;
\* so it returns a record's label when one parses to a positive integer, and
\* 0 when none does (no record, or no label that parses).
C7_LatestIsMaxOrZero ==
    Succeeded("Find.List") =>
        /\ revision \in VersionValues \cup {0}
        /\ \A v \in VersionValues \cup {0} : v <= revision
        /\ (\E v \in VersionValues : v > 0) => revision \in VersionValues

C7_Witness ==
    /\ Succeeded("Find.List")
    /\ Cardinality(VersionValues) >= 2
    /\ revision = 2

\* C8: without a positional argument the run fails with "release name is
\* required" and calls nothing.  With a --revision that parses,
\* ConvertReleaseVersion is called once with that integer and
\* FindLatestReleaseVersion never; with one that does not parse the run fails
\* and calls nothing.  With --revision unset FindLatestReleaseVersion is
\* called once, and ConvertReleaseVersion is called (once, when the lookup
\* succeeded; never, when it failed) with the lookup's result.
C8_RevisionResolution ==
    LET FindCalls    == Steps("FindLatestReleaseVersion")
        ConvertCalls == Steps("ConvertReleaseVersion")
    IN  /\ Len(args) = 0 =>
            /\ log = <<>>
            /\ pc \in {"RunE", "exit"}
            /\ pc = "exit" => (exitStatus = 1 /\ runErr = "release name is required")
        /\ (Len(args) # 0 /\ revisionFlag # <<>> /\ AtoiOk(revisionFlag)) =>
            /\ FindCalls = {}
            /\ pc # "RunE" =>
                /\ ConvertCalls = {1}
                /\ log[1].arg = Atoi(revisionFlag)
                /\ revision = log[1].arg
                /\ revisionFlag = <<43, 50>> => log[1].arg = 2
        /\ (Len(args) # 0 /\ revisionFlag # <<>> /\ ~AtoiOk(revisionFlag)) =>
            /\ log = <<>>
            /\ pc \in {"RunE", "exit"}
            /\ pc = "exit" => (exitStatus = 1 /\ runErr = "parse revision")
        /\ (Len(args) # 0 /\ revisionFlag = <<>> /\ pc # "RunE") =>
            /\ FindCalls = {1}
            /\ Cardinality(ConvertCalls) <= 1
            /\ Succeeded("Find.List") <=> ConvertCalls # {}
            /\ \A i \in ConvertCalls :
                /\ log[i].arg = LatestRevision(FindItems, Len(FindItems))
                /\ revision = log[i].arg
                /\ \A j \in Steps("Find.List") : j < i

C8_Witness ==
    /\ revisionFlag = <<>>
    /\ Succeeded("Find.List")
    /\ \E i \in Steps("ConvertReleaseVersion") : log[i].arg = 2
    /\ pc = "exit"

\* The steps of the pipeline, in the order of the code, and the part of the
\* log they make.
Rank(step) ==
    CASE step = "Convert.List"               -> 1
      [] step = "helmReleaseFromReleaseData" -> 2
      [] step = "TempDir"                    -> 3
      [] step = "WriteFile"                  -> 4
      [] step = "PackageRun"                 -> 5
      [] step = "WriteValuesFile"            -> 6
      [] step = "Println"                    -> 7
      [] OTHER                               -> 0

Pipeline == SelectSeq(log, LAMBDA c : Rank(c.step) > 0)

\* C9: the steps query, decode, temp dir, chart file writes, package, values
\* file, print happen in this order and each at most once (each chart file
\* is written once, in the order of the list); a step is started only when
\* the step before it has succeeded; the values file step alone may be
\* left out, and is exactly when there are no override values; the package
\* action runs only after the last chart file has been written.
C9_OrderedPipeline ==
    LET P == Pipeline
    IN  /\ P # <<>> => P[1].step = "Convert.List"
        /\ \A i \in 2..Len(P) :
            LET prev == P[i - 1]
                cur  == P[i]
            IN  /\ prev.ok
                /\ CASE cur.step = "helmReleaseFromReleaseData" -> prev.step = "Convert.List"
                     [] cur.step = "TempDir"    -> prev.step = "helmReleaseFromReleaseData"
                     [] cur.step = "WriteFile"  ->
                            \/ cur.arg = 1 /\ prev.step = "TempDir"
                            \/ cur.arg > 1 /\ prev = Call("WriteFile", TRUE, cur.arg - 1)
                     [] cur.step = "PackageRun" ->
                            /\ prev = Call("WriteFile", TRUE, Len(files))
                            /\ Len(files) >= 3
                     [] cur.step = "WriteValuesFile" -> prev.step = "PackageRun" /\ HasOverrides
                     [] cur.step = "Println" ->
                            \/ prev.step = "WriteValuesFile"
                            \/ prev.step = "PackageRun" /\ ~HasOverrides
                     [] OTHER -> FALSE
        /\ \A i \in Steps("WriteFile") : log[i].arg \in DOMAIN files

C9_Witness ==
    /\ Called("Println")
    /\ Called("WriteValuesFile")
    /\ Len(Pipeline) >= 9

\* C10: when saveReleaseToFiles has succeeded, the entries were written in
\* the order static files, templates, Chart.yaml, values.yaml,
\* values.schema.json; the three generated files exist at the root of the
\* destination and hold what was generated from the chart's metadata,
\* default values and schema, whatever the static files and templates are
\* named; and every path written holds the data of the last entry written
\* to it.
C10_GeneratedFilesWin ==
    pc = "PackageRun" =>
        LET chart   == helmRelease[1].Chart[1]
            n       == Len(chart.Files) + Len(chart.Templates)
            Dest(i) == Join(releaseDir, files[i].Name)
            Holds(p, data) == p \in DOMAIN fs /\ fs[p] = [kind |-> "file", data |-> data]
        IN  /\ Len(files) = n + 3
            /\ SubSeq(files, 1, Len(chart.Files)) = chart.Files
            /\ SubSeq(files, Len(chart.Files) + 1, n) = chart.Templates
            /\ <<files[n + 1].Name, files[n + 2].Name, files[n + 3].Name>>
                 = << <<"Chart.yaml">>, <<"values.yaml">>, <<"values.schema.json">> >>
            /\ SelectSeq(log, LAMBDA c : c.step = "WriteFile")
                 = [i \in 1..(n + 3) |-> Call("WriteFile", TRUE, i)]
            /\ Holds(releaseDir \o <<"Chart.yaml">>, YamlMarshalMetadata(chart.Metadata))
            /\ Holds(releaseDir \o <<"values.yaml">>, YamlMarshalMap(chart.Values))
            /\ Holds(releaseDir \o <<"values.schema.json">>, JsonMarshalBytes(chart.Schema))
            /\ \A i \in DOMAIN files :
                 LET last == CHOOSE j \in DOMAIN files :
                                /\ Dest(j) = Dest(i)
                                /\ \A k \in DOMAIN files : Dest(k) = Dest(i) => k <= j
                 IN  Holds(Dest(i), files[last].Data)

C10_Witness ==
    /\ pc = "PackageRun"
    /\ \E i \in 1..(Len(files) - 3) :
         Join(releaseDir, files[i].Name) = releaseDir \o <<"Chart.yaml">>
    /\ \E i, j \in 1..(Len(files) - 3) :
         i < j /\ Join(releaseDir, files[i].Name) = Join(releaseDir, files[j].Name)

====
